---- MODULE Spec2Model ----
(***************************************************************************)
(* Model of scripts/org_stats.py: the organisation statistics reporter.    *)
(*                                                                         *)
(* Strings that the program inspects character by character (repository   *)
(* names, keywords, timestamps) are sequences of one-character strings.    *)
(* A dict or Counter is a sequence of <<key, value>> pairs in insertion    *)
(* order, which is the order Python iterates it in.  A call that returns   *)
(* gives Ok(value); an exception is the value Raised, and an operator that *)
(* calls one that can raise passes Raised on unless the source catches it. *)
(* Markdown is a sequence of lines, each a tuple that starts with the      *)
(* fixed text of the line.  The report file is a sequence of chunks: the   *)
(* two marker comments and text that holds neither.  No marker is a        *)
(* suffix-prefix overlap of itself or of the other, and no generated line  *)
(* holds a marker, so finding a marker in the file is finding its chunk.   *)
(***************************************************************************)
EXTENDS Integers, Sequences, FiniteSets, TLC

VARIABLES
    ORG_NAME,      \* whether ORG_NAME is set to a non-blank value
    TOKEN,         \* whether GITHUB_TOKEN is set to a non-blank value
    host,          \* the host: page number -> answer to GET /orgs/{org}/repos
    langHost,      \* the host: repository name -> answer to GET .../languages
    contribHost,   \* the host: repository name -> answer to GET .../contributors
    README,        \* content of the file at README_PATH
    svg,           \* content of the file at LANG_SVG_PATH (<<>>: no such file)
    clock,         \* the wall clock, an index into TimeSeq
    pc,            \* position of main(), or of the function a specification runs
    exit_status,   \* exit status of the process, once pc = "exit"
    page,          \* fetch_all_repos: page
    repos,         \* fetch_all_repos: repos, then main: repos
    active_30d,    \* main: active_30d
    lang_counter,  \* main: lang_counter
    top_contribs,  \* main: top_contribs
    grouped,       \* main: grouped
    new_block,     \* main: new_block
    md,            \* the Markdown a builder called on its own returned
    limit,         \* the limit passed to make_recent_repos_table
    requested,     \* history: the API requests of this run, in order
    run,           \* history: number of this run (the script is run on a schedule)
    files0,        \* history: <<README, svg>> when this run started
    wrote,         \* history: whether this run wrote README
    results,       \* history: the values returned by successive calls
    calls          \* history: number of calls made

vars == <<ORG_NAME, TOKEN, host, langHost, contribHost, README, svg, clock, pc,
          exit_status, page, repos, active_30d, lang_counter, top_contribs, grouped,
          new_block, md, limit, requested, run, files0, wrote, results, calls>>

\* what the environment holds; no step of the program changes it
hostVars == <<ORG_NAME, TOKEN, host, langHost, contribHost>>

(***************************************************************************)
(* Bounds of the model.                                                    *)
(***************************************************************************)
\* repositories in a list handed to one function
MaxRepos == 3
\* calls of one function on the same input
MaxCalls == 2
\* pages the host holds
MaxPages == 3
\* repositories of the organisation in a full run
MainRepos == 1
\* chunks of the report file before the first run
MaxReadmeLen == 3
\* runs of the script
MaxRuns == 2

Min(S) == CHOOSE x \in S : \A y \in S : x <= y
Range(f) == {f[x] : x \in DOMAIN f}

(***************************************************************************)
(* Characters and strings.                                                 *)
(***************************************************************************)
UpperChars == <<"A","B","C","D","E","F","G","H","I","J","K","L","M",
                "N","O","P","Q","R","S","T","U","V","W","X","Y","Z">>
LowerChars == <<"a","b","c","d","e","f","g","h","i","j","k","l","m",
                "n","o","p","q","r","s","t","u","v","w","x","y","z">>
DigitChars == <<"0","1","2","3","4","5","6","7","8","9">>

\* the characters of names and timestamps, in code point order
CharOrder == <<"-", ".">> \o DigitChars \o <<":">> \o UpperChars \o <<"_">> \o LowerChars

Ord(c) == CHOOSE i \in 1..Len(CharOrder) : CharOrder[i] = c

\* a < b on str: by code point, a proper prefix first
StrLess(a, b) ==
    \E k \in 1..Len(b) :
        /\ \A p \in 1..(k - 1) : p <= Len(a) /\ a[p] = b[p]
        /\ \/ k = Len(a) + 1
           \/ k <= Len(a) /\ Ord(a[k]) < Ord(b[k])

\* str.lower() on one character
LowerChar(c) ==
    IF \E i \in 1..Len(UpperChars) : UpperChars[i] = c
    THEN LowerChars[CHOOSE i \in 1..Len(UpperChars) : UpperChars[i] = c]
    ELSE c

\* str.lower()
Lower(s) == [i \in 1..Len(s) |-> LowerChar(s[i])]

\* needle in hay (Python substring test)
Contains(hay, needle) ==
    \E off \in 0..(Len(hay) - Len(needle)) :
        SubSeq(hay, off + 1, off + Len(needle)) = needle

\* lst[:n]
Take(lst, n) == SubSeq(lst, 1, IF n < Len(lst) THEN n ELSE Len(lst))

\* None
Null == <<"None">>

\* a repository as the host returns it; id stands for html_url (unique per
\* repository); stargazers_count and language are left out
Repo(id, name, pushed) == [id |-> id, name |-> name, pushed_at |-> pushed]

(***************************************************************************)
(* Configuration (lines 32-43).                                            *)
(***************************************************************************)
BLOCK_START == <<"<!-- ORG-STATS:START -->">>
BLOCK_END == <<"<!-- ORG-STATS:END -->">>

\* SATELLITE_GROUPS, in the order the dict literal declares its keys
SATELLITE_GROUPS == <<
    [sat |-> "YOMOGI",  kws |-> << <<"y","o","m","o","g","i">>, <<"Y","O","M","O","G","I">>,
                                   <<"y","m","g">>, <<"Y","M","G">> >>],
    [sat |-> "KASHIWA", kws |-> << <<"k","a","s","h","i","w","a">>, <<"K","A","S","H","I","W","A">>,
                                   <<"k","s","h">>, <<"K","S","H">> >>],
    [sat |-> "SAKURA",  kws |-> << <<"s","a","k","u","r","a">>, <<"S","A","K","U","R","A">>,
                                   <<"s","k","r">>, <<"S","K","R">> >>],
    [sat |-> "BOTAN",   kws |-> << <<"b","o","t","a","n">>, <<"B","O","T","A","N">>,
                                   <<"b","t","n">>, <<"B","T","N">> >>],
    [sat |-> "MOMIJI",  kws |-> << <<"m","o","m","i","j","i">>, <<"M","O","M","I","J","I">>,
                                   <<"m","m","j">>, <<"M","M","J">> >>] >>

OTHER_GROUP == "OTHERS"

(***************************************************************************)
(* github_api, fetch_all_repos and the per-repository fetches.             *)
(***************************************************************************)
Ok(d) == [ok |-> TRUE, data |-> d]
Raised == [ok |-> FALSE, data |-> <<>>]

\* github_api(url): raises RuntimeError without a token, else whatever urlopen and
\* json.loads do with the host's answer (answer: Ok(json) or Raised)
GithubApi(token, answer) == IF ~token THEN Raised ELSE answer

\* per_page = 100
PerPage == 100

\* the host's answer for a page; past its last page the host answers []
HostPage(h, p) == IF p <= Len(h) THEN h[p] ELSE Ok(<<>>)

\* the loop with the test of line 72 left out: only an empty page ends it
LastPage_OnlyEmpty(data) == FALSE

\* if len(data) < per_page: break
LastPage(data) == Len(data) < PerPage

\* fetch_repo_languages without its try/except: the exception leaves the function
FetchRepoLanguages_NoCatch(token, answer) == GithubApi(token, answer)

\* fetch_repo_languages: try: return github_api(url)  except Exception: return {}
FetchRepoLanguages(token, answer) ==
    IF GithubApi(token, answer).ok THEN GithubApi(token, answer) ELSE Ok(<<>>)

\* fetch_repo_contributors: try: return github_api(url)  except Exception: return []
FetchRepoContributors(token, answer) ==
    IF GithubApi(token, answer).ok THEN GithubApi(token, answer) ELSE Ok(<<>>)

(***************************************************************************)
(* collections.Counter as a sequence of <<key, count>> in insertion order. *)
(* A loop that carries a value from one turn to the next is a recursive    *)
(* operator; the value of a turn is bound by `t \in {...}` before the next  *)
(* turn starts, as the assignment in the loop body binds it.               *)
(***************************************************************************)
HasKey(c, k) == \E i \in 1..Len(c) : c[i][1] = k

\* the place of key k in the counter
KeyIndex(c, k) == CHOOSE i \in 1..Len(c) : c[i][1] = k

\* counter[k] (0 for a missing key)
ValueOf(c, k) == IF HasKey(c, k) THEN c[KeyIndex(c, k)][2] ELSE 0

\* counter[k] = v in place of counter[k] += v
CounterAdd_Overwrite(c, k, v) ==
    IF HasKey(c, k)
    THEN SubSeq(c, 1, KeyIndex(c, k) - 1) \o << <<k, v>> >>
         \o SubSeq(c, KeyIndex(c, k) + 1, Len(c))
    ELSE Append(c, <<k, v>>)

\* counter[k] += v: the key keeps its place, a new key goes to the end
CounterAdd(c, k, v) ==
    IF HasKey(c, k)
    THEN SubSeq(c, 1, KeyIndex(c, k) - 1) \o << <<k, c[KeyIndex(c, k)][2] + v>> >>
         \o SubSeq(c, KeyIndex(c, k) + 1, Len(c))
    ELSE Append(c, <<k, v>>)

\* the place of x in a list sorted by count, descending: before the first item of
\* smaller count
InsertByCount(sorted, x) ==
    LET smaller == {i \in 1..Len(sorted) : sorted[i][2] < x[2]}
        at == IF smaller = {} THEN Len(sorted) + 1 ELSE Min(smaller)
    IN  SubSeq(sorted, 1, at - 1) \o <<x>> \o SubSeq(sorted, at, Len(sorted))

RECURSIVE SortByCount(_, _, _)
SortByCount(c, i, sorted) ==
    IF i > Len(c) THEN sorted
    ELSE CHOOSE out \in
             {SortByCount(c, i + 1, t) : t \in {InsertByCount(sorted, c[i])}} : TRUE

RECURSIVE Reverse(_)
Reverse(q) == IF q = <<>> THEN <<>> ELSE Append(Reverse(Tail(q)), Head(q))

\* a selection that keeps, among equal counts, the item inserted last
MostCommon_LastFirst(c, n) == Take(SortByCount(Reverse(c), 1, <<>>), n)

\* Counter.most_common(n): heapq.nlargest(n, items, key=count), which is
\* sorted(items, key=count, reverse=True)[:n]; the sort is stable, so items of
\* equal count keep their insertion order
MostCommon(c, n) == Take(SortByCount(c, 1, <<>>), n)

RECURSIVE SumCounts(_, _)
SumCounts(c, i) == IF i > Len(c) THEN 0 ELSE c[i][2] + SumCounts(c, i + 1)

(***************************************************************************)
(* aggregate_languages and save_language_svg                               *)
(***************************************************************************)
\* for lang, size in langs.items(): counter[lang] += size
RECURSIVE AddAll(_, _, _)
AddAll(c, items, j) ==
    IF j > Len(items) THEN c
    ELSE CHOOSE out \in
             {AddAll(t, items, j + 1) : t \in {CounterAdd(c, items[j][1], items[j][2])}} : TRUE

RECURSIVE AggregateLanguagesLoop(_, _, _, _, _)
AggregateLanguagesLoop(rs, token, lhost, i, counter) ==
    IF i > Len(rs) THEN Ok(counter)
    ELSE LET langs == FetchRepoLanguages(token, lhost[rs[i].name])
         IN  IF ~langs.ok THEN Raised
             ELSE CHOOSE out \in
                      {AggregateLanguagesLoop(rs, token, lhost, i + 1, t) :
                          t \in {AddAll(counter, langs.data, 1)}} : TRUE

AggregateLanguages(rs, token, lhost) == AggregateLanguagesLoop(rs, token, lhost, 1, <<>>)

\* lang_counter.most_common(8)
ChartTopK == 8

\* save_language_svg: the file written, a placeholder for an empty counter, else
\* the pie of the 8 most common languages (drawing left out)
SaveLanguageSvg(counter) ==
    IF counter = <<>> THEN <<"No language data">>
    ELSE <<"pie", MostCommon(counter, ChartTopK)>>

(***************************************************************************)
(* aggregate_contributors                                                  *)
(***************************************************************************)
\* top_n=10, the argument main passes
TopN == 10

\* for c in contribs: login = c.get("login"); cnt = c.get("contributions", 0)
\*                    if login: total[login] += cnt
\* an entry without a login has login = ""
RECURSIVE AddContribs(_, _, _)
AddContribs(total, contribs, j) ==
    IF j > Len(contribs) THEN total
    ELSE CHOOSE out \in
             {AddContribs(t, contribs, j + 1) :
                 t \in {IF contribs[j].login # ""
                        THEN CounterAdd(total, contribs[j].login, contribs[j].contributions)
                        ELSE total}} : TRUE

RECURSIVE AggregateContributorsLoop(_, _, _, _, _)
AggregateContributorsLoop(rs, token, chost, i, total) ==
    IF i > Len(rs) THEN Ok(total)
    ELSE LET contribs == FetchRepoContributors(token, chost[rs[i].name])
         IN  IF ~contribs.ok THEN Raised
             ELSE CHOOSE out \in
                      {AggregateContributorsLoop(rs, token, chost, i + 1, t) :
                          t \in {AddContribs(total, contribs.data, 1)}} : TRUE

AggregateContributors(rs, token, chost, top_n) ==
    LET total == AggregateContributorsLoop(rs, token, chost, 1, <<>>)
    IN  IF total.ok THEN Ok(MostCommon(total.data, top_n)) ELSE Raised

(***************************************************************************)
(* group_repos_by_satellite                                                *)
(***************************************************************************)
\* keys of grouped in insertion order: the satellites, then OTHER_GROUP
GroupKeys == [k \in 1..(Len(SATELLITE_GROUPS) + 1) |->
                 IF k <= Len(SATELLITE_GROUPS) THEN SATELLITE_GROUPS[k].sat ELSE OTHER_GROUP]

BucketNames == {GroupKeys[k] : k \in 1..Len(GroupKeys)}

\* grouped = {k: [] for k in SATELLITE_GROUPS.keys()}; grouped[OTHER_GROUP] = []
EmptyGrouped == [b \in BucketNames |-> <<>>]

\* lower = name, the name taken as it is
LowerName_AsIs(name) == name

\* lower = name.lower()
LowerName(name) == Lower(name)

\* kw.lower() in lower
KeywordMatches(kw, lower) == Contains(lower, Lower(kw))

\* any(kw.lower() in lower for kw in kws)
AnyKeyword(kws, lower) == \E j \in 1..Len(kws) : KeywordMatches(kws[j], lower)

\* the satellites whose keywords match, as indexes into SATELLITE_GROUPS
MatchingSats(name) ==
    LET lower == LowerName(name) IN
    {k \in 1..Len(SATELLITE_GROUPS) : AnyKeyword(SATELLITE_GROUPS[k].kws, lower)}

\* the loop body without its break: the repository lands in every matching satellite
PlaceRepo_NoBreak(g, r) ==
    LET matching == MatchingSats(r.name) IN
    IF matching = {}
    THEN [g EXCEPT ![OTHER_GROUP] = Append(@, r)]
    ELSE [b \in BucketNames |->
            IF \E k \in matching : SATELLITE_GROUPS[k].sat = b
            THEN Append(g[b], r) ELSE g[b]]

\* one iteration of `for r in repos`: the inner for stops at the first matching
\* satellite (break); with no match the repository goes to OTHER_GROUP
PlaceRepo(g, r) ==
    LET matching == MatchingSats(r.name) IN
    IF matching = {}
    THEN [g EXCEPT ![OTHER_GROUP] = Append(@, r)]
    ELSE [g EXCEPT ![SATELLITE_GROUPS[Min(matching)].sat] = Append(@, r)]

RECURSIVE GroupLoop(_, _, _)
GroupLoop(rs, i, g) ==
    IF i > Len(rs) THEN g ELSE GroupLoop(rs, i + 1, PlaceRepo(g, rs[i]))

GroupReposBySatellite(rs) == GroupLoop(rs, 1, EmptyGrouped)

(***************************************************************************)
(* repos.sort(key=lambda r: r["pushed_at"] or "", reverse=True)            *)
(***************************************************************************)
\* r["pushed_at"] or ""
PushedKey(r) == IF r.pushed_at = Null THEN <<>> ELSE r.pushed_at

\* the sort without reverse=True: ascending, equal keys in their original order
InsertByPushed_Ascending(sorted, r) ==
    LET greater == {i \in 1..Len(sorted) : StrLess(PushedKey(r), PushedKey(sorted[i]))}
        at == IF greater = {} THEN Len(sorted) + 1 ELSE Min(greater)
    IN  SubSeq(sorted, 1, at - 1) \o <<r>> \o SubSeq(sorted, at, Len(sorted))

\* the place of r in a list sorted by key, descending, equal keys in their original
\* order (list.sort is stable, also with reverse=True): before the first smaller key
InsertByPushed(sorted, r) ==
    LET smaller == {i \in 1..Len(sorted) : StrLess(PushedKey(sorted[i]), PushedKey(r))}
        at == IF smaller = {} THEN Len(sorted) + 1 ELSE Min(smaller)
    IN  SubSeq(sorted, 1, at - 1) \o <<r>> \o SubSeq(sorted, at, Len(sorted))

RECURSIVE SortByPushed(_, _, _)
SortByPushed(rs, i, sorted) ==
    IF i > Len(rs) THEN sorted ELSE SortByPushed(rs, i + 1, InsertByPushed(sorted, rs[i]))

SortRepos(rs) == SortByPushed(rs, 1, <<>>)

(***************************************************************************)
(* Timestamps: YYYY-MM-DDTHH:MM:SSZ, and the count of lines 276-283.       *)
(***************************************************************************)
DigitVal(c) == (CHOOSE d \in 1..Len(DigitChars) : DigitChars[d] = c) - 1

\* the number written at places a..b of a timestamp
RECURSIVE Num(_, _, _)
Num(ts, a, b) == IF a > b THEN 0 ELSE Num(ts, a, b - 1) * 10 + DigitVal(ts[b])

\* year, month, day, hour, minute, second
Fields(ts) == <<Num(ts, 1, 4), Num(ts, 6, 7), Num(ts, 9, 10),
                Num(ts, 12, 13), Num(ts, 15, 16), Num(ts, 18, 19)>>

\* days from 1970-01-01 to a date of the proleptic Gregorian calendar
DaysFromCivil(y0, m, d) ==
    LET y == IF m <= 2 THEN y0 - 1 ELSE y0
        era == y \div 400
        yoe == y - era * 400
        mp == IF m > 2 THEN m - 3 ELSE m + 9
        doy == (153 * mp + 2) \div 5 + d - 1
        doe == yoe * 365 + yoe \div 4 - yoe \div 100 + doy
    IN  era * 146097 + doe - 719468

\* datetime.fromisoformat(ts.replace("Z", "+00:00")), in seconds from 1970-01-01
Secs(ts) ==
    LET f == Fields(ts)
    IN  DaysFromCivil(f[1], f[2], f[3]) * 86400 + f[4] * 3600 + f[5] * 60 + f[6]

\* (now - dt).days
DeltaDays(now, ts) == (Secs(now) - Secs(ts)) \div 86400

\* the loop of lines 278-283
ActiveCount(rs, now) ==
    Cardinality({i \in 1..Len(rs) :
                    rs[i].pushed_at # Null /\ DeltaDays(now, rs[i].pushed_at) <= 30})

(***************************************************************************)
(* Markdown builders                                                       *)
(***************************************************************************)
\* the [:10] of the Pushed column
DateLen == 10

\* limit=10, the argument main passes
RecentLimit == 10

\* (r['pushed_at'] or '-')[:10]
PushedCell(r) == Take(IF r.pushed_at = Null THEN <<"-">> ELSE r.pushed_at, DateLen)

\* make_recent_repos_table: three head lines, one row per repository of
\* repos[:limit], one empty line
MakeRecentReposTable(rs, lim) ==
    << <<"### recent">>, <<"| Repo | Pushed | Stars | Lang |">>, <<"|------|">> >>
    \o [i \in 1..Len(Take(rs, lim)) |-> <<"| [", rs[i].name, rs[i].id, PushedCell(rs[i])>>]
    \o << <<"">> >>

\* lang_counter.most_common(10)
LangTopN == 10

\* f"{ratio:.1f}" of (size / total) * 100, in tenths of a percent
RatioTenths(size, total) == IF total = 0 THEN 0 ELSE (size * 2000 + total) \div (2 * total)

\* make_language_section
MakeLanguageSection(counter) ==
    IF counter = <<>>
    THEN << <<"### Language Summary">>, <<"no language data">>, <<"">> >>
    ELSE LET top == MostCommon(counter, LangTopN)
             total == SumCounts(counter, 1)
         IN  << <<"### Language Summary">>, <<"| Language | Bytes | Ratio |">>, <<"|----------|">> >>
             \o [i \in 1..Len(top) |->
                    <<"| ", top[i][1], top[i][2], RatioTenths(top[i][2], total), "% |">>]
             \o << <<"">>, <<"see ../assets/langs.svg">>, <<"">> >>

\* make_contributors_section: the heading, then the "no data" line, or the table
\* head and one row per entry of top_contribs
MakeContributorsSection(top) ==
    IF top = <<>>
    THEN << <<"### Top Contributors">>, <<"no data">>, <<"">> >>
    ELSE << <<"### Top Contributors">>, <<"| User | Contributions |">>, <<"|------|">> >>
         \o [i \in 1..Len(top) |-> <<"| @", top[i][1], top[i][2]>>]
         \o << <<"">> >>

\* sorted(repos, key=lambda x: x["name"].lower())
InsertByName(sorted, r) ==
    LET greater == {i \in 1..Len(sorted) : StrLess(Lower(r.name), Lower(sorted[i].name))}
        at == IF greater = {} THEN Len(sorted) + 1 ELSE Min(greater)
    IN  SubSeq(sorted, 1, at - 1) \o <<r>> \o SubSeq(sorted, at, Len(sorted))

RECURSIVE SortByName(_, _, _)
SortByName(rs, i, sorted) ==
    IF i > Len(rs) THEN sorted ELSE SortByName(rs, i + 1, InsertByName(sorted, rs[i]))

\* make_satellite_section: the heading, then for each bucket that holds something,
\* in the order of the keys of grouped, its heading, its repositories and a line
RECURSIVE SatelliteLines(_, _)
SatelliteLines(g, k) ==
    IF k > Len(GroupKeys) THEN <<>>
    ELSE (IF g[GroupKeys[k]] = <<>> THEN <<>>
          ELSE LET rs == SortByName(g[GroupKeys[k]], 1, <<>>)
               IN  << <<"#### ", GroupKeys[k]>> >>
                   \o [i \in 1..Len(rs) |-> <<"- [", rs[i].name, rs[i].id>>]
                   \o << <<"">> >>)
         \o SatelliteLines(g, k + 1)

MakeSatelliteSection(g) == << <<"### Satellite Projects">> >> \o SatelliteLines(g, 1)

\* new_block = "".join(md), lines 298-310
NewBlock(now_iso, rs, active, counter, top, g) ==
    << <<"updated: ", now_iso>>, <<"">>, <<"- repositories: ", Len(rs)>>,
       <<"- active in 30 days: ", active>>, <<"">> >>
    \o MakeRecentReposTable(rs, RecentLimit)
    \o MakeLanguageSection(counter)
    \o MakeContributorsSection(top)
    \o MakeSatelliteSection(g)

(***************************************************************************)
(* The replacement of the marked block, lines 316-323.                     *)
(***************************************************************************)
\* sep in s
In(s, sep) == \E i \in 1..Len(s) : s[i] = sep

\* s.partition(sep): <<head, sep, tail>> at the first sep, <<s, "", "">> without one
Partition(s, sep) ==
    IF In(s, sep)
    THEN LET i == Min({j \in 1..Len(s) : s[j] = sep})
         IN  <<SubSeq(s, 1, i - 1), <<sep>>, SubSeq(s, i + 1, Len(s))>>
    ELSE <<s, <<>>, <<>>>>

\* the test with `and` for `or`: the run stops only when both markers are absent
MarkersMissing_Both(readme) == ~In(readme, BLOCK_START) /\ ~In(readme, BLOCK_END)

\* BLOCK_START not in readme or BLOCK_END not in readme
MarkersMissing(readme) == ~In(readme, BLOCK_START) \/ ~In(readme, BLOCK_END)

\* before + BLOCK_START + "\n" + new_block + BLOCK_END + after
NewReadme(readme, block) ==
    LET before == Partition(readme, BLOCK_START)[1]
        tail == Partition(readme, BLOCK_START)[3]
        after == Partition(tail, BLOCK_END)[3]
    IN  before \o <<BLOCK_START>> \o << <<"\n">> >> \o block \o <<BLOCK_END>> \o after

(***************************************************************************)
(* The organisation and the clock the runs meet.                           *)
(***************************************************************************)
T_2023_12_31 == <<"2","0","2","3","-","1","2","-","3","1","T","2","3",":","5","9",":","5","9","Z">>
T_2024_01_01 == <<"2","0","2","4","-","0","1","-","0","1","T","0","0",":","0","0",":","0","0","Z">>
T_2024_03_01 == <<"2","0","2","4","-","0","3","-","0","1","T","0","9",":","3","0",":","0","0","Z">>
T_2024_03_01b == <<"2","0","2","4","-","0","3","-","0","1","T","1","0",":","0","5",":","0","0","Z">>
T_2024_03_15 == <<"2","0","2","4","-","0","3","-","1","5","T","1","2",":","0","0",":","0","0","Z">>
T_2024_04_20 == <<"2","0","2","4","-","0","4","-","2","0","T","0","8",":","0","0",":","0","1","Z">>

\* the instants at which the clock is read
TimeSeq == <<T_2024_03_15, T_2024_04_20>>

\* names of the repositories of the organisation, in the order the host lists them
NameSeq == << <<"d","o","c","s">>, <<"K","S","H">>, <<"S","a","k","u","r","a">>,
              <<"m","o","m","i","j","i">>, <<"y","m","g","-","b","t","n">> >>

PushSeq == <<T_2023_12_31, Null, T_2024_03_01>>

RECURSIVE Digits(_)
Digits(n) == IF n < 10 THEN <<DigitChars[n + 1]>>
             ELSE Append(Digits(n \div 10), DigitChars[(n % 10) + 1])

NameOf(id) == IF id <= Len(NameSeq) THEN NameSeq[id] ELSE <<"r">> \o Digits(id)

RepoAt(id) == Repo(id, NameOf(id), PushSeq[((id - 1) % Len(PushSeq)) + 1])

\* the n repositories of page p
Page(p, n) == [k \in 1..n |-> RepoAt((p - 1) * PerPage + k)]

OrgRepos(n) == [i \in 1..n |-> Repo(i, NameSeq[i], Null)]

Contrib(login, n) == [login |-> login, contributions |-> n]

(***************************************************************************)
(* The steps of a run: main(), with fetch_all_repos one page at a time.    *)
(* An exception no one catches ends the process with status 1.             *)
(***************************************************************************)
\* variables only a function called on its own changes
callVars == <<md, limit, results, calls>>

\* lines 262-264, and lines 63-65 of fetch_all_repos
MainStart ==
    /\ pc = "start"
    /\ IF ~ORG_NAME
       THEN /\ pc' = "exit"
            /\ exit_status' = 1
            /\ UNCHANGED <<page, repos>>
       ELSE /\ pc' = "fetch"
            /\ page' = 1
            /\ repos' = <<>>
            /\ UNCHANGED exit_status
    /\ UNCHANGED <<hostVars, README, svg, clock, active_30d, lang_counter, top_contribs,
                   grouped, new_block, requested, run, files0, wrote, callVars>>

\* one turn of the while loop of fetch_all_repos, lines 66-74
FetchPage ==
    /\ pc = "fetch"
    /\ requested' = Append(requested, <<"repos", page>>)
    /\ LET data == GithubApi(TOKEN, HostPage(host, page))
       IN  IF ~data.ok
           THEN /\ pc' = "exit"
                /\ exit_status' = 1
                /\ UNCHANGED <<page, repos>>
           ELSE IF data.data = <<>>
           THEN /\ pc' = "fetched"
                /\ UNCHANGED <<page, repos, exit_status>>
           ELSE /\ repos' = repos \o data.data
                /\ IF LastPage(data.data)
                   THEN pc' = "fetched" /\ UNCHANGED page
                   ELSE pc' = "fetch" /\ page' = page + 1
                /\ UNCHANGED exit_status
    /\ UNCHANGED <<hostVars, README, svg, clock, active_30d, lang_counter, top_contribs,
                   grouped, new_block, run, files0, wrote, callVars>>

\* lines 268-273
MainCheckRepos ==
    /\ pc = "fetched"
    /\ IF repos = <<>>
       THEN /\ pc' = "exit"
            /\ exit_status' = 0
            /\ UNCHANGED repos
       ELSE /\ repos' = SortRepos(repos)
            /\ pc' = "active"
            /\ UNCHANGED exit_status
    /\ UNCHANGED <<hostVars, README, svg, clock, page, active_30d, lang_counter,
                   top_contribs, grouped, new_block, requested, run, files0, wrote, callVars>>

\* lines 276-283
MainCountActive ==
    /\ pc = "active"
    /\ active_30d' = ActiveCount(repos, TimeSeq[clock])
    /\ pc' = "languages"
    /\ UNCHANGED <<hostVars, README, svg, clock, exit_status, page, repos, lang_counter,
                   top_contribs, grouped, new_block, requested, run, files0, wrote, callVars>>

\* line 287
MainLanguages ==
    /\ pc = "languages"
    /\ requested' = requested \o [i \in 1..Len(repos) |-> <<"languages", repos[i].name>>]
    /\ LET r == AggregateLanguages(repos, TOKEN, langHost)
       IN  IF r.ok
           THEN /\ lang_counter' = r.data
                /\ pc' = "svg"
                /\ UNCHANGED exit_status
           ELSE /\ pc' = "exit"
                /\ exit_status' = 1
                /\ UNCHANGED lang_counter
    /\ UNCHANGED <<hostVars, README, svg, clock, page, repos, active_30d, top_contribs,
                   grouped, new_block, run, files0, wrote, callVars>>

\* line 288
MainSaveSvg ==
    /\ pc = "svg"
    /\ svg' = SaveLanguageSvg(lang_counter)
    /\ pc' = "contributors"
    /\ UNCHANGED <<hostVars, README, clock, exit_status, page, repos, active_30d,
                   lang_counter, top_contribs, grouped, new_block, requested, run, files0,
                   wrote, callVars>>

\* line 293
MainContributors ==
    /\ pc = "contributors"
    /\ requested' = requested \o [i \in 1..Len(repos) |-> <<"contributors", repos[i].name>>]
    /\ LET r == AggregateContributors(repos, TOKEN, contribHost, TopN)
       IN  IF r.ok
           THEN /\ top_contribs' = r.data
                /\ pc' = "group"
                /\ UNCHANGED exit_status
           ELSE /\ pc' = "exit"
                /\ exit_status' = 1
                /\ UNCHANGED top_contribs
    /\ UNCHANGED <<hostVars, README, svg, clock, page, repos, active_30d, lang_counter,
                   grouped, new_block, run, files0, wrote, callVars>>

\* line 296
MainGroup ==
    /\ pc = "group"
    /\ grouped' = GroupReposBySatellite(repos)
    /\ pc' = "compose"
    /\ UNCHANGED <<hostVars, README, svg, clock, exit_status, page, repos, active_30d,
                   lang_counter, top_contribs, new_block, requested, run, files0, wrote,
                   callVars>>

\* lines 298-310; the clock is read again, and may have moved on since line 276
MainCompose ==
    /\ pc = "compose"
    /\ \E c \in clock..Len(TimeSeq) :
          /\ clock' = c
          /\ new_block' = NewBlock(TimeSeq[c], repos, active_30d, lang_counter,
                                   top_contribs, grouped)
    /\ pc' = "patch"
    /\ UNCHANGED <<hostVars, README, svg, exit_status, page, repos, active_30d,
                   lang_counter, top_contribs, grouped, requested, run, files0, wrote,
                   callVars>>

\* lines 313-330; falling off the end of main is exit status 0
MainPatch ==
    /\ pc = "patch"
    /\ pc' = "exit"
    /\ IF MarkersMissing(README)
       THEN /\ exit_status' = 1
            /\ UNCHANGED <<README, wrote>>
       ELSE /\ exit_status' = 0
            /\ IF NewReadme(README, new_block) # README
               THEN README' = NewReadme(README, new_block) /\ wrote' = TRUE
               ELSE UNCHANGED <<README, wrote>>
    /\ UNCHANGED <<hostVars, svg, clock, page, repos, active_30d, lang_counter,
                   top_contribs, grouped, new_block, requested, run, files0, callVars>>

\* the external trigger runs the script again: a new process, the same host data,
\* the files as the last run left them, the clock where it was or later
Rerun ==
    /\ pc = "exit"
    /\ run < MaxRuns
    /\ run' = run + 1
    /\ pc' = "start"
    /\ \E c \in clock..Len(TimeSeq) : clock' = c
    /\ files0' = <<README, svg>>
    /\ exit_status' = 0
    /\ page' = 1
    /\ repos' = <<>>
    /\ active_30d' = 0
    /\ lang_counter' = <<>>
    /\ top_contribs' = <<>>
    /\ grouped' = EmptyGrouped
    /\ new_block' = <<>>
    /\ requested' = <<>>
    /\ wrote' = FALSE
    /\ UNCHANGED <<hostVars, README, svg, callVars>>

(***************************************************************************)
(* Specification Spec: runs of the script.                                 *)
(***************************************************************************)
TEXT == <<"text">>

\* report files: up to MaxReadmeLen chunks, each a marker or text
Readmes == UNION {[1..n -> {BLOCK_START, BLOCK_END, TEXT}] : n \in 0..MaxReadmeLen}

MainLangAnswers == {Raised, Ok(<< <<"C", 75>>, <<"Python", 25>> >>)}

MainContribAnswers == {Raised, Ok(<< Contrib("u01", 5), Contrib("", 9), Contrib("u02", 5) >>)}

\* the program's own variables before a run
FreshRun ==
    /\ exit_status = 0
    /\ page = 1
    /\ repos = <<>>
    /\ active_30d = 0
    /\ lang_counter = <<>>
    /\ top_contribs = <<>>
    /\ grouped = EmptyGrouped
    /\ new_block = <<>>
    /\ requested = <<>>
    /\ wrote = FALSE

NoCalls == md = <<>> /\ limit = 0 /\ results = <<>> /\ calls = 0

Init ==
    /\ pc = "start"
    /\ ORG_NAME \in BOOLEAN
    /\ TOKEN \in BOOLEAN
    /\ \/ \E n \in 0..MainRepos :
             /\ host = <<Ok(Page(1, n))>>
             /\ langHost \in [{NameOf(i) : i \in 1..n} -> MainLangAnswers]
             /\ contribHost \in [{NameOf(i) : i \in 1..n} -> MainContribAnswers]
       \/ /\ host \in {<<Raised>>, <<Ok(Page(1, PerPage)), Raised>>}
          /\ langHost = <<>>
          /\ contribHost = <<>>
    /\ README \in Readmes
    /\ svg = <<>>
    /\ clock = 1
    /\ run = 1
    /\ files0 = <<README, svg>>
    /\ FreshRun
    /\ NoCalls

Next ==
    \/ MainStart
    \/ FetchPage
    \/ MainCheckRepos
    \/ MainCountActive
    \/ MainLanguages
    \/ MainSaveSvg
    \/ MainContributors
    \/ MainGroup
    \/ MainCompose
    \/ MainPatch
    \/ Rerun

Spec == Init /\ [][Next]_vars

(***************************************************************************)
(* Specification SpecFetch: fetch_all_repos against hosts of up to         *)
(* MaxPages pages.  The process runs on until it ends, so the loop is      *)
(* taken whenever it can be.                                               *)
(***************************************************************************)
\* what the host can answer for a page: an error (size -1), or a list of 0, 1,
\* per_page - 1 or per_page repositories
PageSizes == {-1, 0, 1, PerPage - 1, PerPage}

PageAnswer(p, size) == IF size < 0 THEN Raised ELSE Ok(Page(p, size))

Hosts == {[p \in 1..Len(k) |-> PageAnswer(p, k[p])] :
             k \in UNION {[1..n -> PageSizes] : n \in 1..MaxPages}}

\* variables of main that a function called on its own leaves as they are
NoMain ==
    /\ README = <<>>
    /\ svg = <<>>
    /\ clock = 1
    /\ run = 1
    /\ files0 = <<README, svg>>
    /\ exit_status = 0
    /\ page = 1
    /\ active_30d = 0
    /\ new_block = <<>>
    /\ requested = <<>>
    /\ wrote = FALSE

mainVars == <<README, svg, clock, run, files0, exit_status, page, active_30d, new_block,
              requested, wrote>>

InitFetch ==
    /\ pc = "fetch"
    /\ ORG_NAME = TRUE
    /\ TOKEN \in BOOLEAN
    /\ host \in Hosts
    /\ langHost = <<>>
    /\ contribHost = <<>>
    /\ repos = <<>>
    /\ lang_counter = <<>>
    /\ top_contribs = <<>>
    /\ grouped = EmptyGrouped
    /\ NoMain
    /\ NoCalls

NextFetch == FetchPage

SpecFetch == InitFetch /\ [][NextFetch]_vars /\ WF_vars(FetchPage)

(***************************************************************************)
(* Specification SpecGroup: group_repos_by_satellite called on a list,     *)
(* and called again on the same list.                                      *)
(***************************************************************************)
\* repository names, one per case of the classifier
Names == {
    <<"y","m","g","-","b","t","n">>,       \* ymg-btn : YOMOGI and BOTAN
    <<"B","T","N","_","Y","M","G">>,       \* BTN_YMG : BOTAN first in the name, upper case
    <<"S","a","k","u","r","a">>,           \* Sakura  : mixed case
    <<"s","k","r","-","m","m","j">>,       \* skr-mmj : SAKURA and MOMIJI
    <<"K","S","H">>,                       \* KSH
    <<"d","o","c","s">>,                   \* docs    : no satellite
    <<"m","o","m","i","j","i">> }          \* momiji

NameLists == UNION {[1..n -> Names] : n \in 0..MaxRepos}

InitGroup ==
    /\ pc = "group"
    /\ ORG_NAME = TRUE
    /\ TOKEN = TRUE
    /\ host = <<>>
    /\ langHost = <<>>
    /\ contribHost = <<>>
    /\ \E ns \in NameLists : repos = [i \in 1..Len(ns) |-> Repo(i, ns[i], Null)]
    /\ lang_counter = <<>>
    /\ top_contribs = <<>>
    /\ grouped = EmptyGrouped
    /\ NoMain
    /\ NoCalls

GroupCall ==
    /\ pc = "group"
    /\ calls < MaxCalls
    /\ grouped' = GroupReposBySatellite(repos)
    /\ results' = Append(results, grouped')
    /\ calls' = calls + 1
    /\ UNCHANGED <<hostVars, mainVars, pc, repos, lang_counter, top_contribs, md, limit>>

NextGroup == GroupCall

SpecGroup == InitGroup /\ [][NextGroup]_vars

(***************************************************************************)
(* Specification SpecLang: aggregate_languages called on a repository      *)
(* list, then on reorderings of it, against the same host answers.         *)
(***************************************************************************)
\* answers of GET /repos/{owner}/{repo}/languages
LangAnswers == {
    Raised,
    Ok(<<>>),
    Ok(<< <<"C", 75>>, <<"Python", 25>> >>),
    Ok(<< <<"Python", 10>> >>),
    Ok(<< <<"Rust", 5>>, <<"C", 5>> >>) }

Langs == {"C", "Python", "Rust"}

\* the orderings of a list
Orderings(rs) == {p \in [1..Len(rs) -> Range(rs)] : Range(p) = Range(rs)}

InitLang ==
    /\ pc = "languages"
    /\ ORG_NAME = TRUE
    /\ TOKEN \in BOOLEAN
    /\ host = <<>>
    /\ contribHost = <<>>
    /\ \E n \in 0..MaxRepos :
          /\ repos = OrgRepos(n)
          /\ langHost \in [{NameSeq[i] : i \in 1..n} -> LangAnswers]
    /\ lang_counter = <<>>
    /\ top_contribs = <<>>
    /\ grouped = EmptyGrouped
    /\ NoMain
    /\ NoCalls

AggregateLanguagesCall ==
    /\ pc = "languages"
    /\ calls < MaxCalls
    /\ \E rs \in Orderings(repos) :
          /\ repos' = rs
          /\ results' = Append(results, AggregateLanguages(rs, TOKEN, langHost))
    /\ lang_counter' = results'[Len(results')].data
    /\ calls' = calls + 1
    /\ UNCHANGED <<hostVars, mainVars, pc, top_contribs, grouped, md, limit>>

NextLang == AggregateLanguagesCall

SpecLang == InitLang /\ [][NextLang]_vars

(***************************************************************************)
(* Specification SpecContrib: aggregate_contributors on a repository list, *)
(* then make_contributors_section on its result.                           *)
(***************************************************************************)
\* answers of GET /repos/{owner}/{repo}/contributors?per_page=100
ContribAnswers == {
    Raised,
    Ok(<<>>),
    Ok(<< Contrib("u01", 5), Contrib("u02", 5), Contrib("u03", 3), Contrib("u04", 3),
          Contrib("u05", 3), Contrib("u06", 2), Contrib("u07", 2), Contrib("u08", 2),
          Contrib("u09", 1), Contrib("u10", 1), Contrib("u11", 1) >>),
    Ok(<< Contrib("", 9), Contrib("u11", 1), Contrib("u03", 2) >>),
    Ok(<< Contrib("u12", 5), Contrib("u09", 0), Contrib("u02", 1) >>) }

Logins == {"u01", "u02", "u03", "u04", "u05", "u06", "u07", "u08", "u09", "u10", "u11", "u12"}

InitContrib ==
    /\ pc = "contributors"
    /\ ORG_NAME = TRUE
    /\ TOKEN \in BOOLEAN
    /\ host = <<>>
    /\ langHost = <<>>
    /\ \E n \in 0..MaxRepos :
          /\ repos = OrgRepos(n)
          /\ contribHost \in [{NameSeq[i] : i \in 1..n} -> ContribAnswers]
    /\ lang_counter = <<>>
    /\ top_contribs = <<>>
    /\ grouped = EmptyGrouped
    /\ NoMain
    /\ NoCalls

AggregateContributorsCall ==
    /\ pc = "contributors"
    /\ results' = <<AggregateContributors(repos, TOKEN, contribHost, TopN)>>
    /\ top_contribs' = results'[1].data
    /\ pc' = "section"
    /\ calls' = calls + 1
    /\ UNCHANGED <<hostVars, mainVars, repos, lang_counter, grouped, md, limit>>

MakeContributorsSectionCall ==
    /\ pc = "section"
    /\ md' = MakeContributorsSection(top_contribs)
    /\ pc' = "done"
    /\ UNCHANGED <<hostVars, mainVars, repos, lang_counter, top_contribs, grouped, limit,
                   results, calls>>

NextContrib == AggregateContributorsCall \/ MakeContributorsSectionCall

SpecContrib == InitContrib /\ [][NextContrib]_vars

(***************************************************************************)
(* Specification SpecRecent: the sort of main, then                        *)
(* make_recent_repos_table.                                                *)
(***************************************************************************)
PushedValues == {Null, T_2023_12_31, T_2024_01_01, T_2024_03_01, T_2024_03_01b}

InitRecent ==
    /\ pc = "sort"
    /\ ORG_NAME = TRUE
    /\ TOKEN = TRUE
    /\ host = <<>>
    /\ langHost = <<>>
    /\ contribHost = <<>>
    /\ \E n \in 0..MaxRepos : \E ps \in [1..n -> PushedValues] :
          repos = [i \in 1..n |-> Repo(i, NameSeq[i], ps[i])]
    /\ results = <<repos>>
    /\ md = <<>>
    /\ limit = 0
    /\ calls = 0
    /\ lang_counter = <<>>
    /\ top_contribs = <<>>
    /\ grouped = EmptyGrouped
    /\ NoMain

SortCall ==
    /\ pc = "sort"
    /\ repos' = SortRepos(repos)
    /\ pc' = "table"
    /\ UNCHANGED <<hostVars, mainVars, lang_counter, top_contribs, grouped, callVars>>

MakeRecentReposTableCall ==
    /\ pc = "table"
    /\ \E lim \in {1, 2, RecentLimit} :
          /\ limit' = lim
          /\ md' = MakeRecentReposTable(repos, lim)
    /\ pc' = "done"
    /\ calls' = calls + 1
    /\ UNCHANGED <<hostVars, mainVars, repos, lang_counter, top_contribs, grouped, results>>

NextRecent == SortCall \/ MakeRecentReposTableCall

SpecRecent == InitRecent /\ [][NextRecent]_vars

(***************************************************************************)
(* Claims about group_repos_by_satellite (SpecGroup).                      *)
(***************************************************************************)
\* the places (bucket, position) at which repository r is held
PlacesOf(g, r) == {bj \in BucketNames \X (1..MaxRepos + 1) :
                      bj[2] <= Len(g[bj[1]]) /\ g[bj[1]][bj[2]] = r}

RECURSIVE SumLen(_, _)
SumLen(g, S) == IF S = {} THEN 0
                ELSE LET b == CHOOSE x \in S : TRUE IN Len(g[b]) + SumLen(g, S \ {b})

\* C1: after group_repos_by_satellite, every repository of the input list is held
\* at exactly one place of exactly one of the six buckets, the buckets hold nothing
\* else, and grouping the same list again returns the same buckets.
C1_Partition ==
    calls >= 1 =>
        /\ DOMAIN grouped = {"YOMOGI", "KASHIWA", "SAKURA", "BOTAN", "MOMIJI", "OTHERS"}
        /\ \A i \in 1..Len(repos) : Cardinality(PlacesOf(grouped, repos[i])) = 1
        /\ SumLen(grouped, DOMAIN grouped) = Len(repos)
        /\ \A k \in 1..Len(results) : results[k] = grouped

C1_Witness ==
    /\ calls = 2
    /\ Len(repos) = 3
    /\ \E i \in 1..Len(repos) : Cardinality(MatchingSats(repos[i].name)) >= 2
    /\ grouped["OTHERS"] # <<>>
    /\ grouped["YOMOGI"] # <<>>

\* two characters that differ at most in case
SameLetter(a, b) ==
    \/ a = b
    \/ \E i \in 1..Len(UpperChars) : {a, b} = {UpperChars[i], LowerChars[i]}

\* kw occurs in name as a case-insensitive substring
OccursCI(kw, name) ==
    \E off \in 0..(Len(name) - Len(kw)) :
        \A p \in 1..Len(kw) : SameLetter(name[off + p], kw[p])

DeclaredOrder == <<"YOMOGI", "KASHIWA", "SAKURA", "BOTAN", "MOMIJI">>

SatMatchesCI(k, name) ==
    \E j \in 1..Len(SATELLITE_GROUPS[k].kws) : OccursCI(SATELLITE_GROUPS[k].kws[j], name)

\* the bucket the claim assigns to a name
ClaimedBucket(name) ==
    LET matching == {k \in 1..Len(DeclaredOrder) : SatMatchesCI(k, name)} IN
    IF matching # {} THEN DeclaredOrder[Min(matching)] ELSE "OTHERS"

\* C2: a repository is held by the first satellite, in the order YOMOGI, KASHIWA,
\* SAKURA, BOTAN, MOMIJI, one of whose keywords occurs case-insensitively in its
\* name, and by OTHERS when no keyword of any satellite does; by no other bucket.
C2_FirstMatchWins ==
    calls >= 1 =>
        /\ \A k \in 1..Len(DeclaredOrder) : SATELLITE_GROUPS[k].sat = DeclaredOrder[k]
        /\ \A i \in 1..Len(repos) :
              LET claimed == ClaimedBucket(repos[i].name) IN
              \A b \in BucketNames :
                  (\E j \in 1..Len(grouped[b]) : grouped[b][j] = repos[i]) <=> b = claimed

C2_Witness ==
    /\ calls >= 1
    /\ \E i \in 1..Len(repos) :
          /\ repos[i].name = <<"B","T","N","_","Y","M","G">>
          /\ \E j \in 1..Len(grouped["YOMOGI"]) : grouped["YOMOGI"][j] = repos[i]
    /\ \E i \in 1..Len(repos) :
          /\ repos[i].name = <<"s","k","r","-","m","m","j">>
          /\ \E j \in 1..Len(grouped["SAKURA"]) : grouped["SAKURA"][j] = repos[i]
    /\ \E i \in 1..Len(repos) :
          /\ repos[i].name = <<"d","o","c","s">>
          /\ \E j \in 1..Len(grouped["OTHERS"]) : grouped["OTHERS"][j] = repos[i]

(***************************************************************************)
(* Claim about aggregate_languages (SpecLang).                             *)
(***************************************************************************)
\* the repositories whose language fetch succeeds
LangFetched == {i \in 1..Len(repos) : TOKEN /\ langHost[repos[i].name].ok}

\* the bytes of language l the host reports for a repository (0 when it reports none)
BytesOf(name, l) == ValueOf(langHost[name].data, l)

RECURSIVE SumBytes(_, _)
SumBytes(S, l) == IF S = {} THEN 0
                  ELSE LET i == CHOOSE x \in S : TRUE
                       IN  BytesOf(repos[i].name, l) + SumBytes(S \ {i}, l)

\* C3: whatever fetches fail, aggregate_languages returns (it does not raise) a
\* tally whose keys are the languages of the repositories fetched with success and
\* whose value for each language is the sum of its bytes over those repositories;
\* called on a reordering of the list it returns the same tally.
C3_LanguageTally ==
    \A k \in 1..Len(results) :
        /\ results[k].ok
        /\ \A l \in Langs :
              /\ ValueOf(results[k].data, l) = SumBytes(LangFetched, l)
              /\ HasKey(results[k].data, l)
                    <=> \E i \in LangFetched : HasKey(langHost[repos[i].name].data, l)
        /\ \A j \in 1..Len(results[k].data) : results[k].data[j][1] \in Langs
        /\ \A j1, j2 \in 1..Len(results[k].data) :
              results[k].data[j1][1] = results[k].data[j2][1] => j1 = j2

C3_Witness ==
    /\ calls = 2
    /\ Len(repos) = 3
    /\ results[1].data # results[2].data
    /\ \E i \in 1..Len(repos) : ~langHost[repos[i].name].ok
    /\ ValueOf(lang_counter, "C") = 80
    /\ ValueOf(lang_counter, "Python") = 25

(***************************************************************************)
(* Claim about aggregate_contributors (SpecContrib).                       *)
(***************************************************************************)
\* the repositories whose contributor fetch succeeds
ContribFetched == {i \in 1..Len(repos) : TOKEN /\ contribHost[repos[i].name].ok}

\* the entries of repository i that carry login l
EntriesOf(i, l) == {j \in 1..Len(contribHost[repos[i].name].data) :
                       contribHost[repos[i].name].data[j].login = l}

RECURSIVE SumEntries(_, _)
SumEntries(i, J) ==
    IF J = {} THEN 0
    ELSE LET j == CHOOSE x \in J : TRUE
         IN  contribHost[repos[i].name].data[j].contributions + SumEntries(i, J \ {j})

RECURSIVE SumContribs(_, _)
SumContribs(S, l) ==
    IF S = {} THEN 0
    ELSE LET i == CHOOSE x \in S : TRUE
         IN  SumEntries(i, EntriesOf(i, l)) + SumContribs(S \ {i}, l)

\* the logins the host returned, in fetched repositories
Returned == {l \in Logins : \E i \in ContribFetched : EntriesOf(i, l) # {}}

\* where the host first returned login l: <<repository index, index in its list>>
FirstSeen(l) ==
    LET i == Min({x \in ContribFetched : EntriesOf(x, l) # {}})
    IN  <<i, Min(EntriesOf(i, l))>>

SeenBefore(l1, l2) ==
    \/ FirstSeen(l1)[1] < FirstSeen(l2)[1]
    \/ FirstSeen(l1)[1] = FirstSeen(l2)[1] /\ FirstSeen(l1)[2] < FirstSeen(l2)[2]

\* l1 ranks before l2: greater sum, or equal sum and returned first
RanksBefore(l1, l2) ==
    \/ SumContribs(ContribFetched, l1) > SumContribs(ContribFetched, l2)
    \/ /\ SumContribs(ContribFetched, l1) = SumContribs(ContribFetched, l2)
       /\ SeenBefore(l1, l2)

\* C10: aggregate_contributors returns (it does not raise) a ranking of returned
\* logins, each once, each with the sum of its contributions over the repositories
\* fetched with success, by descending sum and, among equal sums, in the order the
\* host first returned them; it holds the first TopN logins of that order (all of
\* them when there are at most TopN); the contributor table has one row per entry
\* of the ranking, in its order.
C10_ContributorRanking ==
    calls >= 1 =>
        /\ results[1].ok
        /\ Len(top_contribs) = (IF Cardinality(Returned) < 10 THEN Cardinality(Returned) ELSE 10)
        /\ \A i \in 1..Len(top_contribs) :
              /\ top_contribs[i][1] \in Returned
              /\ top_contribs[i][2] = SumContribs(ContribFetched, top_contribs[i][1])
        /\ \A i, j \in 1..Len(top_contribs) :
              i < j => RanksBefore(top_contribs[i][1], top_contribs[j][1])
        /\ \A l \in Returned :
              (\A i \in 1..Len(top_contribs) : top_contribs[i][1] # l)
                  => \A i \in 1..Len(top_contribs) : RanksBefore(top_contribs[i][1], l)
        /\ pc = "done" =>
              IF top_contribs = <<>>
              THEN md = << <<"### Top Contributors">>, <<"no data">>, <<"">> >>
              ELSE /\ Len(md) = Len(top_contribs) + 4
                   /\ \A i \in 1..Len(top_contribs) :
                         md[i + 3] = <<"| @", top_contribs[i][1], top_contribs[i][2]>>

C10_Witness ==
    /\ pc = "done"
    /\ Cardinality(Returned) > 10
    /\ Len(top_contribs) = 10
    /\ \E i \in 1..Len(repos) : ~contribHost[repos[i].name].ok
    /\ \E i \in 1..9 : /\ top_contribs[i] = <<"u11", 2>>
                       /\ top_contribs[i + 1] = <<"u06", 2>>

(***************************************************************************)
(* Claim about the recent-activity table (SpecRecent).                     *)
(***************************************************************************)
\* instant t1 is not before instant t2
NotBefore(t1, t2) ==
    \/ Fields(t1) = Fields(t2)
    \/ \E k \in 1..6 : /\ \A p \in 1..(k - 1) : Fields(t1)[p] = Fields(t2)[p]
                       /\ Fields(t1)[k] > Fields(t2)[k]

\* the unsorted list the run started from
RecentInput == results[1]

\* the rows of the table in md, as the ids of their repositories
RowIds == [i \in 1..(Len(md) - 4) |-> md[i + 3][3]]

PushedOf(id) == RecentInput[id].pushed_at

\* C9: the table has min(limit, number of repositories) rows, each a different
\* repository; a row with a push timestamp is never below a row without one, rows
\* with timestamps are in descending order of time, and no repository left out is
\* more recent than a listed one; for pushes [2024-01-01, null, 2024-03-01] and
\* limit 2 the rows are the third repository, then the first.
C9_RecentTable ==
    pc = "done" =>
        /\ Len(RowIds) = (IF limit < Len(RecentInput) THEN limit ELSE Len(RecentInput))
        /\ Len(RowIds) <= limit
        /\ \A i \in 1..Len(RowIds) : RowIds[i] \in 1..Len(RecentInput)
        /\ \A i, j \in 1..Len(RowIds) : i < j =>
              /\ RowIds[i] # RowIds[j]
              /\ PushedOf(RowIds[j]) # Null => PushedOf(RowIds[i]) # Null
              /\ PushedOf(RowIds[j]) # Null =>
                    NotBefore(PushedOf(RowIds[i]), PushedOf(RowIds[j]))
        /\ \A u \in 1..Len(RecentInput) : \A i \in 1..Len(RowIds) :
              (\A j \in 1..Len(RowIds) : RowIds[j] # u) /\ PushedOf(u) # Null =>
                  /\ PushedOf(RowIds[i]) # Null
                  /\ NotBefore(PushedOf(RowIds[i]), PushedOf(u))
        /\ ( /\ Len(RecentInput) = 3
             /\ Take(PushedOf(1), 10) = <<"2","0","2","4","-","0","1","-","0","1">>
             /\ PushedOf(2) = Null
             /\ Take(PushedOf(3), 10) = <<"2","0","2","4","-","0","3","-","0","1">>
             /\ limit = 2 )
           => RowIds = <<3, 1>>

C9_Witness ==
    /\ pc = "done"
    /\ limit = 2
    /\ Len(RecentInput) = 3
    /\ PushedOf(1) = T_2024_01_01
    /\ PushedOf(2) = Null
    /\ PushedOf(3) = T_2024_03_01
    /\ RowIds = <<3, 1>>
    /\ md[4][4] = <<"2","0","2","4","-","0","3","-","0","1">>

(***************************************************************************)
(* Claim about fetch_all_repos (SpecFetch).                                *)
(***************************************************************************)
\* the first page on which the host returns fewer than 100 items (an error counts)
FirstShortPage == Min({p \in 1..(Len(host) + 1) : Len(HostPage(host, p).data) < 100})

RECURSIVE ConcatPages(_, _)
ConcatPages(h, k) == IF k = 0 THEN <<>> ELSE ConcatPages(h, k - 1) \o HostPage(h, k).data

C7_InOrder ==
    /\ \A i \in 1..Len(requested) : requested[i] = <<"repos", i>>
    /\ Len(requested) <= FirstShortPage
    /\ pc = "fetched" =>
          /\ Len(requested) = FirstShortPage
          /\ \A p \in 1..FirstShortPage : GithubApi(TOKEN, HostPage(host, p)).ok
          /\ repos = ConcatPages(host, FirstShortPage)

\* C7: fetch_all_repos requests the pages 1, 2, 3, ... in this order and none after
\* the first page of fewer than 100 items; when it returns, it has requested every
\* page up to that one and returns their items, concatenated in the host's order;
\* and it ends (the hosts here all return a short page in the end).
C7_Pagination == []C7_InOrder /\ <>(pc # "fetch")

C7_Witness ==
    /\ pc = "fetched"
    /\ Len(host) = 3
    /\ Len(requested) = 3
    /\ Len(repos) = 299
    /\ repos[101].id = 101

(***************************************************************************)
(* Claims about a run (Spec).                                              *)
(***************************************************************************)
\* a request for a page of the repository list failed in this run
ListingFailed ==
    \E i \in 1..Len(requested) :
        /\ requested[i][1] = "repos"
        /\ ~GithubApi(TOKEN, HostPage(host, requested[i][2])).ok

\* the requests of this run for one repository's languages or contributors
PerRepoRequests == {i \in 1..Len(requested) : requested[i][1] # "repos"}

\* the run went through to the replacement of the block
Patched == pc = "exit" /\ exit_status = 0 /\ new_block # <<>>

IsPrefix(a, b) == Len(a) <= Len(b) /\ SubSeq(b, 1, Len(a)) = a

\* a occurs in b as a contiguous run of chunks
Occurs(a, b) == \E off \in 0..(Len(b) - Len(a)) : SubSeq(b, off + 1, off + Len(a)) = a

Positions(s, sep) == {i \in 1..Len(s) : s[i] = sep}

\* the file has no start marker or no end marker anywhere
LacksMarker(f) == Positions(f, BLOCK_START) = {} \/ Positions(f, BLOCK_END) = {}

\* C4: when the file holds both markers, wherever and however often, a run that
\* replaces the block keeps all that stood before the start marker, at the start of
\* the file, and all that stood after the end marker.
C4_OnlyBlockReplaced ==
    (Patched /\ In(files0[1], BLOCK_START) /\ In(files0[1], BLOCK_END)) =>
        \E s \in Positions(files0[1], BLOCK_START) :
            \E e \in Positions(files0[1], BLOCK_END) :
                /\ IsPrefix(SubSeq(files0[1], 1, s - 1), README)
                /\ Occurs(SubSeq(files0[1], e + 1, Len(files0[1])), README)

\* C5 as stated: a run on a file that lacks a marker ends with status 1 and leaves
\* the file as it was.
C5_MissingMarkersExitOne ==
    (pc = "exit" /\ LacksMarker(files0[1])) =>
        /\ exit_status = 1
        /\ README = files0[1]

\* the listing of the organisation succeeds and is empty
OrgIsEmpty == TOKEN /\ HostPage(host, 1) = Ok(<<>>)

\* C5, amended: a run on a file that lacks a marker leaves the file as it was; it
\* ends with status 1, except that it ends with status 0 when the organisation is
\* named and its repository list is empty (the file is then never read).
C5_MissingMarkers ==
    (pc = "exit" /\ LacksMarker(files0[1])) =>
        /\ README = files0[1]
        /\ ~wrote
        /\ exit_status = (IF ORG_NAME /\ OrgIsEmpty THEN 0 ELSE 1)

C5_Witness ==
    /\ pc = "exit"
    /\ exit_status = 1
    /\ new_block # <<>>
    /\ In(files0[1], BLOCK_START)
    /\ ~In(files0[1], BLOCK_END)
    /\ README = files0[1]

\* C6: the file is written only when the new content differs from the old, and a
\* second run on the same host data that replaces the block leaves the file as the
\* first run left it.
C6_SecondRunChangesNothing ==
    /\ wrote => README # files0[1]
    /\ (run >= 2 /\ Patched) => (README = files0[1] /\ ~wrote)

\* C8: once a request for a page of the repository list has failed, the run is over
\* with status 1: no repository's languages or contributors are requested, nothing
\* is computed from the pages already fetched, and neither file is written.  A run
\* of an organisation with repositories whose listing succeeds ends only at the
\* replacement of the block, whatever per-repository fetches fail: it has requested
\* the languages and the contributors of every repository and written the chart.
C8_ListingFailureAborts ==
    /\ ListingFailed =>
          /\ pc = "exit"
          /\ exit_status = 1
          /\ PerRepoRequests = {}
          /\ lang_counter = <<>> /\ top_contribs = <<>> /\ new_block = <<>>
          /\ README = files0[1]
          /\ svg = files0[2]
          /\ ~wrote
    /\ (pc = "exit" /\ ORG_NAME /\ ~ListingFailed /\ repos # <<>>) =>
          /\ \A i \in 1..Len(repos) :
                /\ \E j \in 1..Len(requested) : requested[j] = <<"languages", repos[i].name>>
                /\ \E j \in 1..Len(requested) : requested[j] = <<"contributors", repos[i].name>>
          /\ svg # <<>>
          /\ new_block # <<>>
          /\ exit_status = (IF LacksMarker(files0[1]) THEN 1 ELSE 0)

C8_Witness ==
    /\ ListingFailed
    /\ Len(requested) = 2
    /\ Len(repos) = 100
    /\ pc = "exit"

====
